---- MODULE Spec2Model ----
(***************************************************************************)
(* The jobs service of src/server.js (lines 1-451): an Express server that *)
(* keeps the list of job postings in data/jobs.json of a GitHub            *)
(* repository, read and written through the GitHub contents API.           *)
(*                                                                         *)
(* Node runs the synchronous code between two awaits without interleaving, *)
(* so one action is one such stretch of a handler: it starts with the      *)
(* arrival of the HTTP request or of the response to the awaited call and  *)
(* ends at the next await or at the response sent to the client.           *)
(*                                                                         *)
(* GitHub is the environment: a GET returns the content of the file with   *)
(* its sha, a PUT is applied only when it carries the sha of the file as   *)
(* stored, and any call may fail. The sha of a revision is modelled by the *)
(* number of the revision (no content is ever written twice).              *)
(*                                                                         *)
(* The POST handler reads the identifier careerLink, which the source      *)
(* declares nowhere. With nothing else in the process binding it the read  *)
(* throws and every validated POST is answered 500 before any call is      *)
(* made. The rest of the handler runs only when the process environment    *)
(* binds careerLink on the global object; both cases are initial states.   *)
(***************************************************************************)
EXTENDS Integers, Sequences, FiniteSets, TLC

\* ---------------------------------------------------------------- bounds
MaxReqs == 2                   \* HTTP requests in one run
Reqs == 1..MaxReqs

\* ------------------------------------------------------------- constants
NULL == "null"                 \* the JavaScript value null

\* ----------------------------------------------------------------- state
VARIABLES
  careerLink,   \* how the free identifier careerLink of the POST handler resolves:
                \* "undeclared" (nothing in the source declares it; the lookup
                \* throws), or bound on the global object by the environment of
                \* the process to an empty value or to a URL
  blob,         \* data/jobs.json in the GitHub repository: kind, recs, sha
  req           \* per request: position in its handler and the handler's locals

vars == <<careerLink, blob, req>>

\* ------------------------------------------------------- the remote file
\* A job record; by is the request that created it (0: present from the start),
\* which stands for title, description, companyName, userId and the timestamps.
Seed(i) == [id |-> i, by |-> 0, companySummary |-> NULL, isSpam |-> FALSE]

\* The contents the file can have when the server starts: missing, text that is
\* not JSON, JSON that is not an array, or an array of jobs.
InitBlobs ==
  { [kind |-> "absent",   recs |-> <<>>, sha |-> 0],
    [kind |-> "corrupt",  recs |-> <<>>, sha |-> 1],
    [kind |-> "nonarray", recs |-> <<>>, sha |-> 1],
    [kind |-> "array",    recs |-> <<>>, sha |-> 1],
    [kind |-> "array",    recs |-> <<Seed(1)>>, sha |-> 1] }

\* GET .../contents/data/jobs.json: answers with the content and its sha unless
\* the call fails or the file is absent (404).
GetSucceeds(b, ok) == ok /\ b.kind # "absent"

\* PUT .../contents/data/jobs.json with {content, sha}: GitHub applies the
\* update only when sha is the sha of the file it holds (409 otherwise).
PutAccepted(b, sha, ok) == ok /\ b.kind # "absent" /\ sha = b.sha

\* The file after an accepted PUT of JSON.stringify(jobs): a new revision.
PutResult(b, jobs) == [kind |-> "array", recs |-> jobs, sha |-> b.sha + 1]

\* readJobsFromGithub: the parsed content; [] when the GET or JSON.parse throws.
\* The value is tagged "array" or "nonarray" (JSON that parses to a non-array).
readJobsFromGithub(b, ok) ==
  IF GetSucceeds(b, ok) /\ b.kind \in {"array", "nonarray"}
  THEN [kind |-> b.kind, recs |-> b.recs]
  ELSE [kind |-> "array", recs |-> <<>>]

\* What happened to the read inside readJobsFromGithub: the GET failed
\* (network, timeout, 5xx), answered 404, JSON.parse threw, the content parsed
\* to something that is not an array, or an array was read.
ReadOutcome(b, ok) ==
  IF ~ok THEN "unavailable"
  ELSE IF b.kind = "absent" THEN "notfound"
  ELSE IF b.kind = "corrupt" THEN "invalid_json"
  ELSE IF b.kind = "nonarray" THEN "not_array"
  ELSE "ok"

\* The sha in the response of the GET made by readJobsFromGithub (0: none); the
\* helper returns only the parsed content and drops it.
ResponseSha(b, ok) == IF GetSucceeds(b, ok) THEN b.sha ELSE 0

\* ------------------------------------------------------------- requests
RECURSIVE MaxId(_)
MaxId(jobs) ==
  IF jobs = <<>> THEN 0
  ELSE LET m == MaxId(Tail(jobs)) IN IF Head(jobs).id > m THEN Head(jobs).id ELSE m

NewId_NoIncrement(jobs) == IF Len(jobs) > 0 THEN MaxId(jobs) ELSE 1

\* id: jobs.length > 0 ? Math.max(...jobs.map(job => job.id)) + 1 : 1
NewId(jobs) == IF Len(jobs) > 0 THEN MaxId(jobs) + 1 ELSE 1

\* scrapeAndSummarizeCareerPage: the summary, or null on any failure.
scrapeAndSummarizeCareerPage(outcome) ==
  IF outcome = "summary" THEN "summary" ELSE NULL

detectSpamJob_CatchTrue(outcome) == outcome # "false"

\* detectSpamJob: the model's answer is "true"; false on any failure.
detectSpamJob(outcome) == outcome = "true"

\* jobs.filter(job => String(job.userId) === String(userId))
RECURSIVE FilterBy(_, _)
FilterBy(jobs, u) ==
  IF jobs = <<>> THEN <<>>
  ELSE IF Head(jobs).by = u THEN <<Head(jobs)>> \o FilterBy(Tail(jobs), u)
       ELSE FilterBy(Tail(jobs), u)

\* The handler state of a request that has not arrived. auth is the bearer
\* token it came with and fields says which of title, description and
\* companyName its body has (read by the handler once authentication passed).
Fresh ==
  [pc |-> "idle", method |-> "none", query |-> 0, auth |-> "unset",
   fields |-> [title |-> TRUE, description |-> TRUE, companyName |-> TRUE],
   scrape |-> "none", spam |-> "none", read |-> "none",
   companySummary |-> NULL, isSpam |-> FALSE,
   readSha |-> 0, jobs |-> <<>>, newJob |-> Seed(0),
   curSha |-> 0, attempts |-> 0,
   status |-> 0, err |-> "none", body |-> [kind |-> "none", recs |-> <<>>]]

Init ==
  /\ careerLink \in {"undeclared", "empty", "url"}
  /\ blob \in InitBlobs
  /\ req = [r \in Reqs |-> Fresh]

\* res.status(s).json(...) / res.sendStatus(s): the handler of r is over and
\* its locals are gone. What r keeps is the response, the number of PUTs it
\* issued and, when it was answered 200 or 201, what was observed of the calls
\* behind the answer (the enrichment outcomes and the outcome of the read).
Respond(r, m, s, e, k, b) ==
  LET ok == s \in {200, 201}
  IN req' = [req EXCEPT ![r] =
               [Fresh EXCEPT !.pc = "done", !.method = m,
                             !.auth = req[r].auth, !.fields = req[r].fields,
                             !.scrape = IF ok THEN req[r].scrape ELSE "none",
                             !.spam = IF ok THEN req[r].spam ELSE "none",
                             !.read = IF ok THEN req[r].read ELSE "none",
                             !.attempts = req[r].attempts,
                             !.status = s, !.err = e,
                             !.body = [kind |-> k, recs |-> b]]]

\* Requests are numbered in the order in which they arrive.
Arrives(r) ==
  /\ req[r].pc = "idle"
  /\ IF r = 1 THEN TRUE ELSE req[r - 1].pc # "idle"

Tokens == {"none", "bad", "good"}
UserIds == {0, 1}               \* ?userId= of GET /api/jobs; 0: not given
\* The bodies of POST /api/jobs: complete, or with one required field missing.
Bodies ==
  { f \in [title : BOOLEAN, description : BOOLEAN, companyName : BOOLEAN] :
      Cardinality({k \in {"title", "description", "companyName"} : ~f[k]}) <= 1 }

authenticateToken_IgnoresVerifyError(token) == IF token = "none" THEN 401 ELSE 0

\* authenticateToken: 401 without a bearer token, 403 when jwt.verify fails.
authenticateToken(token) ==
  IF token = "none" THEN 401 ELSE IF token = "bad" THEN 403 ELSE 0

\* if (!title || !description || !companyName) return res.status(400)
Validation(b) == IF b.title /\ b.description /\ b.companyName THEN 0 ELSE 400

\* POST /api/jobs arrives: authenticateToken, the validation, then the lookup
\* of careerLink, which the handler never declares: a ReferenceError when
\* nothing else binds it, caught by the handler's catch (500).
PostArrive(r, token, b) ==
  /\ Arrives(r)
  /\ UNCHANGED <<careerLink, blob>>
  /\ LET in == [Fresh EXCEPT !.method = "POST", !.auth = token,
                             !.fields = IF authenticateToken(token) = 0
                                        THEN b ELSE Fresh.fields]
         out(s, e, k) == [in EXCEPT !.pc = "done", !.status = s, !.err = e,
                                    !.body = [kind |-> k, recs |-> <<>>]]
     IN IF authenticateToken(token) # 0
        THEN req' = [req EXCEPT ![r] = out(authenticateToken(token), "none", "none")]
        ELSE IF Validation(b) # 0
        THEN req' = [req EXCEPT ![r] = out(Validation(b), "none", "error")]
        ELSE IF careerLink = "undeclared"
        THEN req' = [req EXCEPT ![r] = out(500, "ReferenceError", "error")]
        ELSE IF careerLink = "url"
        THEN req' = [req EXCEPT ![r] = [in EXCEPT !.pc = "scrape"]]
        ELSE req' = [req EXCEPT ![r] = [in EXCEPT !.pc = "spam"]]

\* await scrapeAndSummarizeCareerPage(careerLink) returns; detectSpamJob is called.
ScrapeDone(r, outcome) ==
  /\ req[r].pc = "scrape"
  /\ UNCHANGED <<careerLink, blob>>
  /\ req' = [req EXCEPT ![r].pc = "spam", ![r].scrape = outcome,
                        ![r].companySummary = scrapeAndSummarizeCareerPage(outcome)]

\* await detectSpamJob(...) returns; readJobsFromGithub is called.
SpamDone(r, outcome) ==
  /\ req[r].pc = "spam"
  /\ UNCHANGED <<careerLink, blob>>
  /\ req' = [req EXCEPT ![r].pc = "read", ![r].spam = outcome,
                        ![r].isSpam = detectSpamJob(outcome)]

\* const newJob = { id: ..., companySummary: companySummary || null, isSpam, ... }
NewJob(r, jobs, summary, isSpam) ==
  [id |-> NewId(jobs), by |-> r, companySummary |-> summary, isSpam |-> isSpam]

\* await readJobsFromGithub() returns in POST /api/jobs: the new job is built
\* and pushed (a TypeError when the parsed content is not an array), and
\* updateGithubJobs issues its own GET for the sha.
PostRead(r, ok) ==
  /\ req[r].pc = "read"
  /\ UNCHANGED <<careerLink, blob>>
  /\ LET j == readJobsFromGithub(blob, ok)
         n == NewJob(r, j.recs, req[r].companySummary, req[r].isSpam)
     IN IF j.kind # "array"
        THEN Respond(r, "POST", 500, "TypeError", "error", <<>>)
        ELSE req' = [req EXCEPT ![r].pc = "upd_get",
                                ![r].read = ReadOutcome(blob, ok),
                                ![r].readSha = ResponseSha(blob, ok),
                                ![r].newJob = n,
                                ![r].jobs = Append(j.recs, n)]

\* updateGithubJobs: the GET of the current file returns; its sha goes into the
\* PUT. A failed GET (the call failed, or 404 for a file that does not exist)
\* is rethrown and answered 500 by the handler with the error's message.
UpdGet(r, ok) ==
  /\ req[r].pc = "upd_get"
  /\ UNCHANGED <<careerLink, blob>>
  /\ IF GetSucceeds(blob, ok)
     THEN req' = [req EXCEPT ![r].pc = "upd_put", ![r].curSha = blob.sha,
                             ![r].attempts = @ + 1]
     ELSE Respond(r, "POST", 500, IF ok THEN "not_found" ELSE "get_failed",
                  "error", <<>>)

PutStatus_AlwaysThrows(accepted) == 500

\* await updateGithubJobs(jobs) resolved: res.status(201); it threw (the PUT
\* was rejected or failed, rethrown by its catch): the handler's catch, 500.
PutStatus(accepted) == IF accepted THEN 201 ELSE 500

\* updateGithubJobs: the PUT is served and its response handled: 201 with the
\* new job when GitHub accepted it, 500 when it was rejected or failed.
UpdPut(r, ok) ==
  /\ req[r].pc = "upd_put"
  /\ UNCHANGED careerLink
  /\ LET accepted == PutAccepted(blob, req[r].curSha, ok)
     IN /\ blob' = IF accepted THEN PutResult(blob, req[r].jobs) ELSE blob
        /\ IF PutStatus(accepted) = 201
           THEN Respond(r, "POST", 201, "none", "job", <<req[r].newJob>>)
           ELSE Respond(r, "POST", 500,
                        IF accepted THEN "none" ELSE IF ok THEN "conflict" ELSE "put_failed",
                        "error", <<>>)

\* GET /api/jobs arrives (the first handler registered for the route, without
\* authentication); readJobsFromGithub is called.
GetArrive(r, userId) ==
  /\ Arrives(r)
  /\ UNCHANGED <<careerLink, blob>>
  /\ req' = [req EXCEPT ![r].pc = "get_read", ![r].method = "GET", ![r].query = userId]

\* await readJobsFromGithub() returns in GET /api/jobs: the jobs, filtered by
\* userId when given (a TypeError, answered 500, when they are not an array).
GetRead(r, ok) ==
  /\ req[r].pc = "get_read"
  /\ UNCHANGED <<careerLink, blob>>
  /\ LET j == readJobsFromGithub(blob, ok)
         k == IF req[r].query = 0 THEN j.kind
              ELSE IF j.kind = "array" THEN "array" ELSE "error"
         b == IF req[r].query = 0 THEN j.recs
              ELSE IF j.kind = "array" THEN FilterBy(j.recs, req[r].query) ELSE <<>>
     IN req' = [req EXCEPT ![r] = [Fresh EXCEPT !.pc = "done", !.method = "GET",
                                          !.read = IF k = "error" THEN "none"
                                                   ELSE ReadOutcome(blob, ok),
                                          !.status = IF k = "error" THEN 500 ELSE 200,
                                          !.err = IF k = "error" THEN "TypeError" ELSE "none",
                                          !.body = [kind |-> k, recs |-> b]]]

Next ==
  \/ \E r \in Reqs, t \in Tokens, b \in Bodies : PostArrive(r, t, b)
  \/ \E r \in Reqs, o \in {"error", "summary"} : ScrapeDone(r, o)
  \/ \E r \in Reqs, o \in {"error", "true", "false"} : SpamDone(r, o)
  \/ \E r \in Reqs, ok \in BOOLEAN : PostRead(r, ok)
  \/ \E r \in Reqs, ok \in BOOLEAN : UpdGet(r, ok)
  \/ \E r \in Reqs, ok \in BOOLEAN : UpdPut(r, ok)
  \/ \E r \in Reqs, u \in UserIds : GetArrive(r, u)
  \/ \E r \in Reqs, ok \in BOOLEAN : GetRead(r, ok)

Spec == Init /\ [][Next]_vars

\* The same service started on an empty jobs.json ("[]").
InitEmptyStore == Init /\ blob = [kind |-> "array", recs |-> <<>>, sha |-> 1]

SpecEmptyStore == InitEmptyStore /\ [][Next]_vars

\* ------------------------------------------------------------ vocabulary
Ids(jobs) == {jobs[i].id : i \in 1..Len(jobs)}
InStore(j) == \E i \in 1..Len(blob.recs) : blob.recs[i] = j
UniqueIds(jobs) == \A i, k \in 1..Len(jobs) : jobs[i].id = jobs[k].id => i = k

\* r is a POST /api/jobs that got past authentication and validation
IsAppend(r) == req[r].method = "POST" /\ req[r].status \notin {400, 401, 403}
Done(r) == req[r].pc = "done"
\* r was answered 201; Returned(r) is the job in the response
Created(r) == req[r].method = "POST" /\ req[r].status = 201
Returned(r) == req[r].body.recs[1]

C6_FailedReadIsAFailure ==
  \A r \in Reqs :
     (Done(r) /\ req[r].method = "GET"
        /\ req[r].read \in {"unavailable", "invalid_json", "not_array"})
     => req[r].status = 500

\* ------------------------------------------------------------------- C7
\* C7: the step in which an append fails leaves the file unchanged, the file
\* changes only in the step that answers an append with 201 (so an append that
\* fails has written nothing), and a PUT that carries a sha other than the
\* file's current sha never changes the file.
C7_Step ==
  /\ \A r \in Reqs : (req[r].status = 0 /\ req'[r].status = 500) => blob' = blob
  /\ blob' # blob => \E r \in Reqs : req[r].pc = "upd_put" /\ req'[r].status = 201
  /\ \A r \in Reqs : (req[r].pc = "upd_put" /\ req'[r].pc = "done"
                        /\ req[r].curSha # blob.sha) => blob' = blob

EnrichmentFailed(r) == req[r].scrape = "error" \/ req[r].spam = "error"

Degraded(r, j) ==
  /\ req[r].scrape = "error" => j.companySummary = NULL
  /\ req[r].spam = "error" => j.isSpam = FALSE

C8_Inv ==
  \A r \in Reqs : EnrichmentFailed(r) =>
     /\ req[r].pc \in {"upd_get", "upd_put"} =>
           /\ Degraded(r, req[r].newJob)
           /\ req[r].jobs[Len(req[r].jobs)] = req[r].newJob
     /\ Created(r) => Degraded(r, Returned(r))

C8_Step ==
  \A r \in Reqs :
     /\ (req[r].pc \in {"scrape", "spam"} /\ req'[r] # req[r])
           => req'[r].pc \in {"spam", "read"} /\ req'[r].status = 0
     /\ (EnrichmentFailed(r) /\ req'[r].status = 500)
           => req'[r].err \in {"TypeError", "get_failed", "not_found",
                               "conflict", "put_failed"}
     /\ (EnrichmentFailed(r) /\ req[r].pc = "upd_put" /\ req'[r].status = 201)
           => /\ blob'.recs = req[r].jobs
              /\ Created(r)' /\ Returned(r)' = req[r].newJob

C9_ValidAppendCreated ==
  \A r \in Reqs :
     (Done(r) /\ IsAppend(r) /\ req[r].read \in {"none", "ok"}
        /\ req[r].err \notin {"get_failed", "not_found", "conflict", "put_failed"})
     => Created(r)

C11_Step ==
  \A r \in Reqs :
     (req[r].pc = "upd_put" /\ req[r].read = "ok" /\ req'[r].status = 201)
     => blob'.recs = Append(blob.recs, req[r].newJob)

Complete(f) == f.title /\ f.description /\ f.companyName

C13_RejectedTouchesNothing ==
  \A r \in Reqs :
     (req[r].method = "POST" /\ (req[r].auth # "good" \/ ~Complete(req[r].fields)))
     => /\ req[r].pc = "done"
        /\ req[r].status = IF req[r].auth = "none" THEN 401
                           ELSE IF req[r].auth = "bad" THEN 403 ELSE 400
        /\ req[r].scrape = "none" /\ req[r].spam = "none" /\ req[r].read = "none"
        /\ req[r].attempts = 0 /\ req[r].jobs = <<>>
        /\ ~InStore(req[r].newJob)

\* one request was refused for its token and another for its body
C13_Witness ==
  \E r1, r2 \in Reqs : /\ req[r1].method = "POST" /\ req[r1].status \in {401, 403}
                       /\ req[r2].method = "POST" /\ req[r2].status = 400
                       /\ ~Complete(req[r2].fields)

====
